---- MODULE Spec2Model ----
(***************************************************************************)
(* Remote SSH session manager of the admin panel backend:                  *)
(*   - the process-wide connection registry (ssh_connections) with         *)
(*     get_ssh_connection / create_ssh_connection / close_ssh_connection,  *)
(*   - the paramiko terminal endpoint ssh_terminal,                        *)
(*   - the asyncssh terminal endpoint ssh_terminal_asyncssh,               *)
(*   - the one-shot executor execute_command,                              *)
(*   - the worker-thread metrics collector _collect_realtime_metrics.      *)
(***************************************************************************)
EXTENDS Integers, Sequences, FiniteSets, TLC

\* ------------------------------------------------------------------ bounds
NumSessions == 2      \* terminal sessions (websocket handlers) in flight
MaxConns == 3         \* transport connections ever opened in one run
MaxFrames == 2        \* client frames sent over all sessions of one run
MaxChunks == 2        \* output chunks produced by the remote shells of one run
MaxExecs == 2         \* one-shot command executions of one run
NumWorkers == 2       \* worker threads running _run_blocking at once
TickSeconds == 900    \* seconds of silence that pass in one step of the clock
MaxFailures == 2      \* commands of one fact collection that fail

\* --------------------------------------------------------- program constants
IDLE_TIMEOUT == 1800  \* seconds, server_ssh_asyncssh.py: IDLE_TIMEOUT = 30 * 60

\* ------------------------------------------------------------ the database
\* Rows of the servers and credentials tables (read-only to this subsystem).
\* Server 2 designates a jump host; credential 2 holds a wrong password;
\* credential 3 is an ssh_key credential.  Ids 9 have no row; 0 is the
\* default of a missing query parameter.
NoConn == 0
ServerRows == {1, 2}
JumpServers == {2}
CredRows == {1, 2, 3}
WrongSecret == {2}
\* The requests a client makes: <<server_id, credential_id, token>>.
Requests ==
    {<<1, 1, "valid">>, <<1, 3, "valid">>,      \* two pairs that can connect
     <<1, 2, "valid">>,                          \* wrong secret
     <<2, 1, "valid">>,                          \* host behind a jump host
     <<9, 1, "valid">>, <<1, 9, "valid">>,       \* no such server, no such credential
     <<1, 0, "valid">>, <<1, 1, "">>,            \* missing query parameter
     <<1, 1, "invalid">>}                        \* token that does not verify

credential_type(c) == IF c = 3 THEN "ssh_key" ELSE "password"

Sessions == 1 .. NumSessions
ConnIds == 1 .. MaxConns

\* key = f"{server_id}:{credential_id}"
KeyOf(server_id, credential_id) == <<server_id, credential_id>>
Keys == {KeyOf(sv, cr) : sv \in ServerRows, cr \in CredRows}

VARIABLES
    ssh_connections,   \* the registry: key -> connection id, NoConn = key absent
    conns,             \* every transport connection: [state, key, by, tracked];
                       \* tracked: opened by create_ssh_connection for the registry
    sess,              \* per terminal session: the handler's locals and position
    env,               \* how many frames and chunks clients and shells have produced
    execs,             \* the one-shot executions completed so far, in order
    thr,               \* per thread: its position inside a registry operation
    last_put,          \* key -> the connection most recently registered under it
    keyrun,            \* one run of the private-key resolution for a credential
    info               \* one run of collect_server_info

vars == <<ssh_connections, conns, sess, env, execs, thr, last_put, keyrun, info>>

\* ------------------------------------------------------- transport connections
\* state: "free" (never opened), "active" (transport.is_active()), "dead" (the
\* transport died), "closed" (close() was called on it; by = who called it).
FreeConn == [state |-> "free", key |-> <<0, 0>>, by |-> "none", tracked |-> FALSE]

HasFree == \E c \in ConnIds : conns[c].state = "free"
NewConnId == CHOOSE c \in ConnIds :
                 /\ conns[c].state = "free"
                 /\ \A d \in ConnIds : conns[d].state = "free" => c <= d

is_active(cs, c) == cs[c].state = "active"

\* get_ssh_connection without its liveness check.
get_without_liveness(reg, cs, key) ==
    IF key \in DOMAIN reg THEN reg[key] ELSE NoConn

\* get_ssh_connection: the registered client if its transport is active.
get_ssh_connection(reg, cs, key) ==
    IF key \in DOMAIN reg /\ reg[key] # NoConn
    THEN IF is_active(cs, reg[key]) THEN reg[key] ELSE NoConn
    ELSE NoConn

\* The outcomes of create_ssh_connection before and at ssh.connect(), in the
\* order of the code: credential kind, jump host, then the connect itself,
\* whose result the network and the remote sshd decide.
ConnectOutcomes(server_id, credential_id) ==
    IF server_id \in JumpServers THEN {"not_implemented"}
    ELSE IF credential_id \in WrongSecret THEN {"auth_failed", "ssh_error", "conn_error"}
    ELSE {"ok", "ssh_error", "conn_error"}

\* create_ssh_connection returning the client without storing it.
StoreNothing(reg, key, c) == reg

\* The store at the end of create_ssh_connection.
StoreConnection(reg, key, c) == [reg EXCEPT ![key] = c]

OpenedConn(key, tracked) ==
    [state |-> "active", key |-> key, by |-> "none", tracked |-> tracked]

\* ------------------------------------------------------------ session records
InitSess ==
    [endpoint |-> "none", pc |-> "new",
     server_id |-> 0, credential_id |-> 0, token |-> "",
     ssh |-> NoConn, opened |-> FALSE,
     channel |-> "none", closes |-> 0, shell |-> "none",
     ws |-> "connecting", sent |-> <<>>,
     reader |-> "none", writer |-> "none",
     inbox |-> <<>>, outq |-> <<>>, written |-> <<>>, size |-> <<80, 24>>,
     is_connected |-> FALSE, elapsed |-> 0, tmp_key |-> "none"]

\* await websocket.send_json(...): the call is logged; it succeeds iff the
\* client-facing connection is still open.
SendJson(r, type, msg) ==
    [r EXCEPT !.sent = Append(@, [type |-> type, msg |-> msg, ok |-> r.ws = "open"])]

\* await websocket.close(...)
WsClose(r) == [r EXCEPT !.ws = IF @ = "open" THEN "server_closed" ELSE @]

\* The failure handler without its websocket.close().
FailWithoutClose(r, msg) == [SendJson(r, "error", msg) EXCEPT !.pc = "failed"]

\* try: send_json(error) except: pass; await websocket.close(code); return
FailWith(r, msg) == [WsClose(SendJson(r, "error", msg)) EXCEPT !.pc = "failed"]


\* ------------------------------------------------- ssh_terminal (paramiko)
\* await websocket.accept(); read credential_id and token from the query.
PAccept(s, q) ==
    /\ sess[s].pc = "new"
    /\   LET r == [sess[s] EXCEPT !.endpoint = "paramiko", !.ws = "open",
                                  !.server_id = q[1], !.credential_id = q[2],
                                  !.token = q[3]]
         IN sess' = [sess EXCEPT ![s] =
                        IF r.credential_id = 0 \/ r.token = ""
                        THEN FailWith(r, "params")
                        ELSE [r EXCEPT !.pc = "auth"]]
    /\ UNCHANGED <<ssh_connections, conns, env, execs, thr, last_put, keyrun, info>>

\* A handler that goes on to the lookups whatever the token is.
PVerifyUserSkipped(s) ==
    /\ sess[s].endpoint = "paramiko"
    /\ sess[s].pc = "auth"
    /\ sess' = [sess EXCEPT ![s].pc = "lookup"]
    /\ UNCHANGED <<ssh_connections, conns, env, execs, thr, last_put, keyrun, info>>

\* current_user = await get_current_user_from_token(token)
PVerifyUser(s) ==
    /\ sess[s].endpoint = "paramiko"
    /\ sess[s].pc = "auth"
    /\ sess' = [sess EXCEPT ![s] =
                   IF sess[s].token = "valid"
                   THEN [@ EXCEPT !.pc = "lookup"]
                   ELSE FailWith(@, "token")]
    /\ UNCHANGED <<ssh_connections, conns, env, execs, thr, last_put, keyrun, info>>

\* The two selects on servers and credentials.
PLookup(s) ==
    /\ sess[s].endpoint = "paramiko"
    /\ sess[s].pc = "lookup"
    /\ sess' = [sess EXCEPT ![s] =
                   IF sess[s].server_id \notin ServerRows
                   THEN FailWith(@, "no_server")
                   ELSE IF sess[s].credential_id \notin CredRows
                   THEN FailWith(@, "no_credential")
                   ELSE [@ EXCEPT !.pc = "connect"]]
    /\ UNCHANGED <<ssh_connections, conns, env, execs, thr, last_put, keyrun, info>>

\* ssh = get_ssh_connection(...); if not ssh: ssh = create_ssh_connection(...)
\* Synchronous on the event loop: no other handler runs in between.
PConnect(s) ==
    LET r == sess[s]
        key == KeyOf(r.server_id, r.credential_id)
        hit == get_ssh_connection(ssh_connections, conns, key)
    IN
    /\ r.endpoint = "paramiko"
    /\ r.pc = "connect"
    /\ IF hit # NoConn
       THEN /\ sess' = [sess EXCEPT ![s] = [r EXCEPT !.ssh = hit, !.pc = "shell"]]
            /\ UNCHANGED <<ssh_connections, conns, last_put>>
       ELSE \E out \in ConnectOutcomes(r.server_id, r.credential_id) :
              IF out = "ok"
              THEN /\ HasFree
                   /\ conns' = [conns EXCEPT ![NewConnId] = OpenedConn(key, TRUE)]
                   /\ ssh_connections' = StoreConnection(ssh_connections, key, NewConnId)
                   /\ last_put' = [last_put EXCEPT ![key] = NewConnId]
                   /\ sess' = [sess EXCEPT ![s] =
                                  [r EXCEPT !.ssh = NewConnId, !.opened = TRUE,
                                            !.pc = "shell"]]
              ELSE /\ sess' = [sess EXCEPT ![s] = FailWith(r, out)]
                   /\ UNCHANGED <<ssh_connections, conns, last_put>>
    /\ UNCHANGED <<env, execs, thr, keyrun, info>>

\* transport.open_session(); channel.get_pty(); channel.invoke_shell()
ShellFailures == {"none", "open_session", "get_pty", "invoke_shell"}

\* A shell start whose failure handler also drops the connection from the
\* registry and closes it.
PStartShellEvicting(s) ==
    LET r == sess[s]
        key == KeyOf(r.server_id, r.credential_id)
    IN
    /\ r.endpoint = "paramiko"
    /\ r.pc = "shell"
    /\ \E f \in ShellFailures :
         IF f = "none" /\ is_active(conns, r.ssh)
         THEN /\ sess' = [sess EXCEPT ![s] =
                        [r EXCEPT !.channel = "open", !.shell = "running",
                                  !.pc = "connected"]]
              /\ UNCHANGED <<ssh_connections, conns, last_put>>
         ELSE /\ sess' = [sess EXCEPT ![s] = FailWith(r, "shell")]
              /\ conns' = [conns EXCEPT ![r.ssh] =
                              [@ EXCEPT !.state = "closed", !.by = "session"]]
              /\ ssh_connections' = [ssh_connections EXCEPT ![key] = NoConn]
              /\ last_put' = [last_put EXCEPT ![key] = NoConn]
    /\ UNCHANGED <<env, execs, thr, keyrun, info>>

\* A shell start that goes on to the connected frame although the shell
\* could not be started.
PStartShellIgnoringFailure(s) ==
    LET r == sess[s] IN
    /\ r.endpoint = "paramiko"
    /\ r.pc = "shell"
    /\ \E f \in ShellFailures :
         sess' = [sess EXCEPT ![s] =
            IF f = "none" /\ is_active(conns, r.ssh)
            THEN [r EXCEPT !.channel = "open", !.shell = "running", !.pc = "connected"]
            ELSE [r EXCEPT !.pc = "connected"]]
    /\ UNCHANGED <<ssh_connections, conns, env, execs, thr, last_put, keyrun, info>>

PStartShell(s) ==
    LET r == sess[s] IN
    /\ r.endpoint = "paramiko"
    /\ r.pc = "shell"
    /\ IF ~is_active(conns, r.ssh)
       THEN sess' = [sess EXCEPT ![s] = FailWith(r, "transport_inactive")]
       ELSE \E f \in ShellFailures :
              sess' = [sess EXCEPT ![s] =
                 CASE f = "none" ->
                        [r EXCEPT !.channel = "open", !.shell = "running",
                                  !.pc = "connected"]
                   [] f = "open_session" -> FailWith(r, "shell")
                   [] OTHER -> FailWith([r EXCEPT !.channel = "open"], "shell")]
    /\ UNCHANGED <<ssh_connections, conns, env, execs, thr, last_put, keyrun, info>>

\* channel.close()
ChannelClose(r) == [r EXCEPT !.channel = "closed", !.closes = @ + 1]

\* Send the connected frame; if the send fails, close the channel and return.
PSendConnected(s) ==
    LET r == sess[s]
        q == SendJson(r, "connected", "ok")
    IN
    /\ r.endpoint = "paramiko"
    /\ r.pc = "connected"
    /\ sess' = [sess EXCEPT ![s] =
                   IF r.ws = "open"
                   THEN [q EXCEPT !.pc = "active", !.reader = "run"]
                   ELSE [ChannelClose(q) EXCEPT !.pc = "closed"]]
    /\ UNCHANGED <<ssh_connections, conns, env, execs, thr, last_put, keyrun, info>>

\* A receive_from_ssh that goes on reading after a send to the client failed.
PReceiveFromSshKeepsRunning(s) ==
    LET r == sess[s] IN
    /\ r.endpoint = "paramiko"
    /\ r.pc = "active"
    /\ r.reader = "run"
    /\ r.writer # "sending"
    /\ IF r.outq # <<>>
       THEN sess' = [sess EXCEPT ![s] =
                [SendJson(r, "output", Head(r.outq)) EXCEPT !.outq = Tail(r.outq)]]
       ELSE /\ r.shell = "exited"
            /\ sess' = [sess EXCEPT ![s] =
                   [SendJson(r, "output", "session_ended") EXCEPT !.reader = "done"]]
    /\ UNCHANGED <<ssh_connections, conns, env, execs, thr, last_put, keyrun, info>>

\* One iteration of receive_from_ssh that does something: forward a chunk,
\* or notice that the shell has exited.  Otherwise the task sleeps.
PReceiveFromSsh(s) ==
    LET r == sess[s] IN
    /\ r.endpoint = "paramiko"
    /\ r.pc = "active"
    /\ r.reader = "run"
    /\ r.writer # "sending"
    /\ IF r.outq # <<>>
       THEN LET q == [SendJson(r, "output", Head(r.outq)) EXCEPT !.outq = Tail(r.outq)]
            IN IF r.ws = "open"
               THEN sess' = [sess EXCEPT ![s] = q]
               ELSE \E caught \in BOOLEAN :
                      \* RuntimeError and ConnectionError break the loop; any
                      \* other exception gets an error frame attempted first.
                      sess' = [sess EXCEPT ![s] =
                         IF caught THEN [q EXCEPT !.reader = "done"]
                         ELSE [SendJson(q, "error", "recv_error") EXCEPT !.reader = "done"]]
       ELSE /\ r.shell = "exited"
            /\ sess' = [sess EXCEPT ![s] =
                   [SendJson(r, "output", "session_ended") EXCEPT !.reader = "done"]]
    /\ UNCHANGED <<ssh_connections, conns, env, execs, thr, last_put, keyrun, info>>

\* The channel accepts writes and resizes while the remote end is there.
ChannelUsable(r) == r.channel = "open" /\ r.shell = "running" /\ is_active(conns, r.ssh)

\* Leaving the message loop: the finally block starts by cancelling the task.
PLeaveLoop(r) ==
    [r EXCEPT !.pc = "closing",
              !.reader = IF @ = "run" THEN "cancelled" ELSE @]

\* A resize that also throws away the output waiting to be forwarded.
resize_pty_flushing(r, width, height) ==
    [r EXCEPT !.size = <<width, height>>, !.outq = <<>>]

\* channel.resize_pty(width=cols, height=rows): the request goes out to the
\* remote end; nothing is read from the channel.
resize_pty(r, width, height) == [r EXCEPT !.size = <<width, height>>]

\* data = await websocket.receive_json() and the dispatch on its type.
\* channel.send() is a synchronous call: it returns at once when the remote
\* window has room, and otherwise keeps the event loop thread inside it
\* (writer = "sending") until the remote end makes room or the channel ends.
PHandleMessage(s) ==
    LET r == sess[s] IN
    /\ r.endpoint = "paramiko"
    /\ r.pc = "active"
    /\ r.writer # "sending"
    /\ IF r.inbox # <<>>
       THEN LET f == Head(r.inbox)
                q == [r EXCEPT !.inbox = Tail(@)]
            IN \E room \in BOOLEAN :
               sess' = [sess EXCEPT ![s] =
                 CASE f.type = "input" ->
                        IF ChannelUsable(r)
                        THEN IF room THEN [q EXCEPT !.written = Append(@, f.data)]
                             ELSE [r EXCEPT !.writer = "sending"]
                        ELSE PLeaveLoop(q)
                   [] f.type = "resize" ->
                        IF ChannelUsable(r)
                        THEN resize_pty(q, f.cols, f.rows)
                        ELSE PLeaveLoop(q)
                   [] f.type = "close" -> PLeaveLoop(q)
                   [] OTHER -> q]
       ELSE /\ r.ws = "client_gone"
            /\ sess' = [sess EXCEPT ![s] = PLeaveLoop(r)]
    /\ UNCHANGED <<ssh_connections, conns, env, execs, thr, last_put, keyrun, info>>

\* channel.send() returns: the data was written, or the channel is gone and
\* the call raises into the handler's except branch.
PChannelSendReturns(s) ==
    LET r == sess[s]
        q == [r EXCEPT !.inbox = Tail(@), !.writer = "none"]
    IN
    /\ r.endpoint = "paramiko"
    /\ r.pc = "active"
    /\ r.writer = "sending"
    /\ sess' = [sess EXCEPT ![s] =
                   IF ChannelUsable(r)
                   THEN [q EXCEPT !.written = Append(@, Head(r.inbox).data)]
                   ELSE PLeaveLoop(q)]
    /\ UNCHANGED <<ssh_connections, conns, env, execs, thr, last_put, keyrun, info>>

\* A cleanup that also closes the SSH client the session ran on.
PCleanupClosesTransport(s) ==
    /\ sess[s].endpoint = "paramiko"
    /\ sess[s].pc = "closing"
    /\ sess' = [sess EXCEPT ![s] = [ChannelClose(@) EXCEPT !.pc = "closed"]]
    /\ conns' = [conns EXCEPT ![sess[s].ssh] =
                    [@ EXCEPT !.state = "closed", !.by = "session"]]
    /\ UNCHANGED <<ssh_connections, env, execs, thr, last_put, keyrun, info>>

\* finally: await the cancelled task, then channel.close()
PCleanup(s) ==
    /\ sess[s].endpoint = "paramiko"
    /\ sess[s].pc = "closing"
    /\ sess' = [sess EXCEPT ![s] = [ChannelClose(@) EXCEPT !.pc = "closed"]]
    /\ UNCHANGED <<ssh_connections, conns, env, execs, thr, last_put, keyrun, info>>

\* --------------------------------------- ssh_terminal_asyncssh (asyncssh)
\* The outer finally: close the shell process if there is one, close the SSH
\* connection if there is one, delete the temporary key file, close the
\* websocket unless it is already disconnected.
AFinallySess(r) ==
    LET p == IF r.channel # "none" THEN ChannelClose(r) ELSE r
    IN [WsClose(p) EXCEPT !.tmp_key = IF @ = "exists" THEN "deleted" ELSE @]

\* An outer finally that leaves the SSH connection open.
AFinallyConnsKeepsOpen(cs, r) == cs

AFinallyConns(cs, r) ==
    IF r.ssh # NoConn /\ cs[r.ssh].state # "closed"
    THEN [cs EXCEPT ![r.ssh] = [@ EXCEPT !.state = "closed", !.by = "session"]]
    ELSE cs

\* try: send_json(error) except: pass; await websocket.close(code); return;
\* then the outer finally.
AFailWith(r, msg) == [AFinallySess(FailWith(r, msg)) EXCEPT !.pc = "failed"]

\* credential_id: int = Query(...), token: str = Query(...) are required
\* parameters: a request without one of them is refused by the framework
\* before the handler runs, so nothing is accepted and no frame is sent.
\* Otherwise: await websocket.accept().
AAccept(s, q) ==
    /\ sess[s].pc = "new"
    /\ LET r == [sess[s] EXCEPT !.endpoint = "asyncssh",
                                !.server_id = q[1], !.credential_id = q[2],
                                !.token = q[3]]
       IN sess' = [sess EXCEPT ![s] =
                      IF q[2] = 0 \/ q[3] = ""
                      THEN [r EXCEPT !.ws = "server_closed", !.pc = "failed"]
                      ELSE [r EXCEPT !.ws = "open", !.pc = "auth"]]
    /\ UNCHANGED <<ssh_connections, conns, env, execs, thr, last_put, keyrun, info>>

AVerifyUser(s) ==
    /\ sess[s].endpoint = "asyncssh"
    /\ sess[s].pc = "auth"
    /\ sess' = [sess EXCEPT ![s] =
                   IF sess[s].token = "valid"
                   THEN [@ EXCEPT !.pc = "lookup"]
                   ELSE AFailWith(@, "token")]
    /\ UNCHANGED <<ssh_connections, conns, env, execs, thr, last_put, keyrun, info>>

\* The two selects; the server is loaded without its jump_host relation.
ALookup(s) ==
    /\ sess[s].endpoint = "asyncssh"
    /\ sess[s].pc = "lookup"
    /\ sess' = [sess EXCEPT ![s] =
                   IF sess[s].server_id \notin ServerRows
                   THEN AFailWith(@, "no_server")
                   ELSE IF sess[s].credential_id \notin CredRows
                   THEN AFailWith(@, "no_credential")
                   ELSE [@ EXCEPT !.pc = "connect"]]
    /\ UNCHANGED <<ssh_connections, conns, env, execs, thr, last_put, keyrun, info>>

\* get_ssh_connection_async: the result of asyncssh.connect; the host's
\* jump_host is not looked at.
AConnectOutcomes(credential_id) ==
    IF credential_id \in WrongSecret THEN {"auth_failed", "conn_error"}
    ELSE {"ok", "conn_error"}

\* An ssh_key credential with inline content is written to a temporary file,
\* which get_ssh_connection_async deletes again when the connect fails.
AConnect(s) ==
    LET r == sess[s]
        key == KeyOf(r.server_id, r.credential_id)
        tmp == IF credential_type(r.credential_id) = "ssh_key" THEN "exists" ELSE "none"
    IN
    /\ r.endpoint = "asyncssh"
    /\ r.pc = "connect"
    /\ \E out \in AConnectOutcomes(r.credential_id) :
         IF out = "ok"
         THEN /\ HasFree
              /\ conns' = [conns EXCEPT ![NewConnId] = OpenedConn(key, FALSE)]
              /\ sess' = [sess EXCEPT ![s] =
                             [r EXCEPT !.ssh = NewConnId, !.opened = TRUE,
                                       !.tmp_key = tmp, !.pc = "connected"]]
         ELSE /\ sess' = [sess EXCEPT ![s] =
                             AFailWith([r EXCEPT !.tmp_key =
                                 IF tmp = "exists" THEN "deleted" ELSE "none"], out)]
              /\ UNCHANGED conns
    /\ UNCHANGED <<ssh_connections, env, execs, thr, last_put, keyrun, info>>

\* The connected frame is sent before the shell is created; if the send
\* fails the handler returns into the outer finally.
ASendConnected(s) ==
    LET r == sess[s]
        q == SendJson(r, "connected", "ok")
    IN
    /\ r.endpoint = "asyncssh"
    /\ r.pc = "connected"
    /\ IF r.ws = "open"
       THEN /\ sess' = [sess EXCEPT ![s] =
                           [q EXCEPT !.pc = "shell", !.is_connected = TRUE,
                                     !.elapsed = 0]]
            /\ UNCHANGED conns
       ELSE /\ sess' = [sess EXCEPT ![s] = [AFinallySess(q) EXCEPT !.pc = "closed"]]
            /\ conns' = AFinallyConns(conns, r)
    /\ UNCHANGED <<ssh_connections, env, execs, thr, last_put, keyrun, info>>

\* process = await conn.create_process(None, term_type=..., term_size=(80, 24))
AStartShell(s) ==
    LET r == sess[s] IN
    /\ r.endpoint = "asyncssh"
    /\ r.pc = "shell"
    /\ \E ok \in (IF is_active(conns, r.ssh) THEN BOOLEAN ELSE {FALSE}) :
         IF ok
         THEN /\ sess' = [sess EXCEPT ![s] =
                             [r EXCEPT !.channel = "open", !.shell = "running",
                                       !.pc = "prompt"]]
              /\ UNCHANGED conns
         ELSE /\ sess' = [sess EXCEPT ![s] = AFailWith(r, "shell")]
              /\ conns' = AFinallyConns(conns, r)
    /\ UNCHANGED <<ssh_connections, env, execs, thr, last_put, keyrun, info>>

\* await asyncio.sleep(0.2); stdin.write('\n'); errors are only logged.
\* Then read_output and handle_input are gathered.
AInitPrompt(s) ==
    LET r == sess[s] IN
    /\ r.endpoint = "asyncssh"
    /\ r.pc = "prompt"
    /\ sess' = [sess EXCEPT ![s] =
                   [r EXCEPT !.written = IF ChannelUsable(r) THEN Append(@, "newline") ELSE @,
                             !.pc = "active", !.reader = "run", !.writer = "run"]]
    /\ UNCHANGED <<ssh_connections, conns, env, execs, thr, last_put, keyrun, info>>

\* One iteration of read_output.  A read that times out (shell silent) only
\* lets time pass: see Tick.
AReadOutput(s) ==
    LET r == sess[s] IN
    /\ r.endpoint = "asyncssh"
    /\ r.pc = "active"
    /\ r.reader = "run"
    /\ \/ /\ ~r.is_connected
          /\ sess' = [sess EXCEPT ![s].reader = "done"]
       \/ /\ r.is_connected
          /\ r.elapsed > IDLE_TIMEOUT
          /\ sess' = [sess EXCEPT ![s] =
                 [SendJson(r, "error", "idle_timeout") EXCEPT
                     !.is_connected = FALSE, !.reader = "done"]]
       \/ /\ r.is_connected
          /\ r.elapsed <= IDLE_TIMEOUT
          /\ is_active(conns, r.ssh)
          /\ r.outq # <<>>
          /\ LET q == [SendJson(r, "output", Head(r.outq)) EXCEPT
                          !.outq = Tail(@), !.elapsed = 0]
             IN IF r.ws = "open"
                THEN sess' = [sess EXCEPT ![s] =
                        IF r.shell = "exited"
                        THEN [SendJson(q, "error", "shell_exited") EXCEPT
                                 !.is_connected = FALSE, !.reader = "done"]
                        ELSE q]
                ELSE \E closedText \in BOOLEAN :
                       sess' = [sess EXCEPT ![s] =
                          IF closedText
                          THEN [q EXCEPT !.is_connected = FALSE, !.reader = "done"]
                          ELSE [SendJson(q, "error", "read_failed") EXCEPT
                                   !.reader = "done"]]
       \/ /\ r.is_connected
          /\ r.elapsed <= IDLE_TIMEOUT
          /\ is_active(conns, r.ssh)
          /\ r.outq = <<>>
          /\ r.shell = "exited"
          /\ sess' = [sess EXCEPT ![s] =
                 [SendJson(r, "error", "shell_exited") EXCEPT
                     !.is_connected = FALSE, !.reader = "done"]]
       \/ /\ r.is_connected
          /\ r.elapsed <= IDLE_TIMEOUT
          /\ ~is_active(conns, r.ssh)
          /\ sess' = [sess EXCEPT ![s] =
                 [SendJson(r, "error", "read_failed") EXCEPT !.reader = "done"]]
    /\ UNCHANGED <<ssh_connections, conns, env, execs, thr, last_put, keyrun, info>>

\* A handle_input that does not notice the client going away: it stays in
\* receive_json for ever.
AHandleInputDeaf(s) ==
    LET r == sess[s]
        again(q) == [q EXCEPT !.writer = IF q.is_connected THEN "run" ELSE "done"]
    IN
    /\ r.endpoint = "asyncssh"
    /\ r.pc = "active"
    /\ r.writer = "run"
    /\ r.inbox # <<>>
    /\ LET f == Head(r.inbox)
           q == [r EXCEPT !.inbox = Tail(@)]
       IN sess' = [sess EXCEPT ![s] =
            CASE f.type = "input" ->
                   again([q EXCEPT !.elapsed = 0,
                                   !.written = IF ChannelUsable(r)
                                               THEN Append(@, f.data) ELSE @])
              [] f.type = "resize" ->
                   again([q EXCEPT !.size = IF ChannelUsable(r) THEN <<f.cols, f.rows>> ELSE @])
              [] OTHER -> again(q)]
    /\ UNCHANGED <<ssh_connections, conns, env, execs, thr, last_put, keyrun, info>>

\* A resize that counts as activity.
change_terminal_size_as_activity(r, width, height) ==
    [r EXCEPT !.size = <<width, height>>, !.elapsed = 0]

\* process.change_terminal_size(cols, rows); a failure is logged and ignored.
change_terminal_size(r, width, height) == [r EXCEPT !.size = <<width, height>>]

\* One iteration of handle_input: the task is blocked in receive_json until
\* a frame arrives or the client disconnects; is_connected is looked at only
\* when the loop comes round again.
AHandleInput(s) ==
    LET r == sess[s]
        again(q) == [q EXCEPT !.writer = IF q.is_connected THEN "run" ELSE "done"]
    IN
    /\ r.endpoint = "asyncssh"
    /\ r.pc = "active"
    /\ r.writer = "run"
    /\ IF r.inbox # <<>>
       THEN LET f == Head(r.inbox)
                q == [r EXCEPT !.inbox = Tail(@)]
            IN sess' = [sess EXCEPT ![s] =
                 CASE f.type = "input" ->
                        again([q EXCEPT !.elapsed = 0,
                                        !.written = IF ChannelUsable(r)
                                                    THEN Append(@, f.data) ELSE @])
                   [] f.type = "resize" ->
                        again(IF ChannelUsable(r)
                              THEN change_terminal_size(q, f.cols, f.rows) ELSE q)
                   [] OTHER -> again(q)]
       ELSE /\ r.ws = "client_gone"
            /\ sess' = [sess EXCEPT ![s] =
                           [r EXCEPT !.is_connected = FALSE, !.writer = "done"]]
    /\ UNCHANGED <<ssh_connections, conns, env, execs, thr, last_put, keyrun, info>>

\* gather() has returned: the inner finally closes the process, then the
\* outer finally closes it again, closes the connection, deletes the key file
\* and closes the websocket.
AFinish(s) ==
    LET r == sess[s] IN
    /\ r.endpoint = "asyncssh"
    /\ r.pc = "active"
    /\ r.reader = "done"
    /\ r.writer = "done"
    /\ sess' = [sess EXCEPT ![s] =
                   [AFinallySess(ChannelClose([r EXCEPT !.is_connected = FALSE]))
                       EXCEPT !.pc = "closed"]]
    /\ conns' = AFinallyConns(conns, r)
    /\ UNCHANGED <<ssh_connections, env, execs, thr, last_put, keyrun, info>>

\* Silence: neither output nor input for TickSeconds more.
MaxElapsed == IDLE_TIMEOUT + TickSeconds

Tick(s) ==
    /\ sess[s].endpoint = "asyncssh"
    /\ sess[s].pc = "active"
    /\ sess[s].is_connected
    /\ sess[s].outq = <<>>
    /\ sess[s].inbox = <<>>
    /\ sess[s].elapsed < MaxElapsed
    /\ sess' = [sess EXCEPT ![s].elapsed =
                   IF @ + TickSeconds > MaxElapsed THEN MaxElapsed ELSE @ + TickSeconds]
    /\ UNCHANGED <<ssh_connections, conns, env, execs, thr, last_put, keyrun, info>>

\* --------------------------------------------------- clients, shells, network
\* The n-th frame a client sends: input carries text, resize carries rows
\* and cols.
ClientFrames(n) ==
    {[type |-> "input", data |-> ToString(n), rows |-> 0, cols |-> 0],
     [type |-> "resize", data |-> "", rows |-> 24 + n, cols |-> 80 + n],
     [type |-> "close", data |-> "", rows |-> 0, cols |-> 0],
     [type |-> "ping", data |-> "", rows |-> 0, cols |-> 0]}

ClientSend(s) ==
    /\ sess[s].pc = "active"
    /\ sess[s].ws = "open"
    /\ env.frames < MaxFrames
    /\ \E f \in ClientFrames(env.frames + 1) :
         sess' = [sess EXCEPT ![s].inbox = Append(@, f)]
    /\ env' = [env EXCEPT !.frames = @ + 1]
    /\ UNCHANGED <<ssh_connections, conns, execs, thr, last_put, keyrun, info>>

ClientDisconnect(s) ==
    /\ sess[s].ws = "open"
    /\ sess[s].pc \notin {"closed", "failed"}
    /\ sess' = [sess EXCEPT ![s].ws = "client_gone"]
    /\ UNCHANGED <<ssh_connections, conns, env, execs, thr, last_put, keyrun, info>>

ShellOutput(s) ==
    /\ sess[s].pc = "active"
    /\ sess[s].shell = "running"
    /\ is_active(conns, sess[s].ssh)
    /\ env.chunks < MaxChunks
    /\ sess' = [sess EXCEPT ![s].outq = Append(@, ToString(env.chunks + 1))]
    /\ env' = [env EXCEPT !.chunks = @ + 1]
    /\ UNCHANGED <<ssh_connections, conns, execs, thr, last_put, keyrun, info>>

ShellExit(s) ==
    /\ sess[s].pc = "active"
    /\ sess[s].shell = "running"
    /\ sess' = [sess EXCEPT ![s].shell = "exited"]
    /\ UNCHANGED <<ssh_connections, conns, env, execs, thr, last_put, keyrun, info>>

TransportDies(c) ==
    /\ conns[c].state = "active"
    /\ conns' = [conns EXCEPT ![c].state = "dead"]
    /\ UNCHANGED <<ssh_connections, sess, env, execs, thr, last_put, keyrun, info>>

\* The event loop thread is inside a synchronous call that has not returned.
LoopBlocked ==
    \/ \E s \in Sessions : sess[s].writer = "sending"
    \/ \E i \in 1 .. Len(execs) : execs[i].status = "running"

\* ------------------------------------------- POST /{server_id}/ssh/disconnect
\* close_ssh_connection, run on the event loop by disconnect_ssh.
close_ssh_connection(key) ==
    /\ IF ssh_connections[key] # NoConn
       THEN /\ conns' = [conns EXCEPT ![ssh_connections[key]] =
                            IF @.state = "closed" THEN @
                            ELSE [@ EXCEPT !.state = "closed", !.by = "registry"]]
            /\ ssh_connections' = [ssh_connections EXCEPT ![key] = NoConn]
            /\ last_put' = [last_put EXCEPT ![key] = NoConn]
       ELSE UNCHANGED <<ssh_connections, conns, last_put>>

DisconnectSsh(key) ==
    /\ ~LoopBlocked
    /\ ssh_connections[key] # NoConn
    /\ close_ssh_connection(key)
    /\ UNCHANGED <<sess, env, execs, thr, keyrun, info>>

\* ------------------------------------------------ POST /{server_id}/execute
\* execute_command: get or create the connection, run the command, wait for
\* its exit status and read both streams.  All of it is synchronous paramiko
\* code on the event loop.  The remote side decides the exit status, what
\* the command writes, when it completes and whether the transport breaks.
ExitCodes == {0, 1}

\* What a command writes to its two streams, as bytes; "xff" stands for a
\* byte that is not valid UTF-8.
CommandStreams ==
    {[stdout |-> <<"o", "xff">>, stderr |-> <<>>],
     [stdout |-> <<"o">>, stderr |-> <<"xff", "e">>]}

NoStreams == [stdout |-> <<>>, stderr |-> <<>>]

\* bytes.decode('utf-8', errors='ignore'): invalid bytes are left out.
decode(bytes) == SelectSeq(bytes, LAMBDA b : b # "xff")

\* A response that judges success by an empty stderr.
CommandResultByStderr(exit_status, stdout, stderr) ==
    [success |-> stderr = <<>>, exit_status |-> exit_status,
     output |-> decode(stdout), error |-> decode(stderr)]

\* The dictionary execute_command returns.
CommandResult(exit_status, stdout, stderr) ==
    [success |-> exit_status = 0, exit_status |-> exit_status,
     output |-> decode(stdout), error |-> decode(stderr)]

\* No response body: the request ended in an HTTP error, or has not ended.
NoResult == [success |-> FALSE, exit_status |-> 0, output |-> <<>>, error |-> <<>>]

\* One execution: the pair, the connection it ran on and whether it opened
\* it, how the request stands ("running": the call is waiting in
\* recv_exit_status), what the command does (code, streams, done) and the
\* response.
ExecEntry(key, c, opened, status, code, streams, done, res) ==
    [key |-> key, conn |-> c, opened |-> opened, status |-> status,
     code |-> code, streams |-> streams, done |-> done,
     exit_status |-> res.exit_status, success |-> res.success,
     output |-> res.output, error |-> res.error]

\* recv_exit_status() when the channel was closed without an exit status.
NoExitStatus == 0 - 1

Prefixes(seq) == {SubSeq(seq, 1, n) : n \in 0 .. Len(seq)}

ExecuteCommand(key) ==
    LET hit == get_ssh_connection(ssh_connections, conns, key) IN
    /\ ~LoopBlocked
    /\ Len(execs) < MaxExecs
    /\ \E out \in (IF hit # NoConn THEN {"ok"} ELSE ConnectOutcomes(key[1], key[2])),
          code \in ExitCodes, streams \in CommandStreams,
          run \in {"completes", "waits", "broken"} :
         LET c == IF hit # NoConn THEN hit ELSE NewConnId
             cs == IF hit # NoConn THEN conns
                   ELSE [conns EXCEPT ![c] = OpenedConn(key, TRUE)]
         IN
         IF out # "ok"
         THEN /\ code = 0 /\ run = "completes" /\ streams = CHOOSE x \in CommandStreams : TRUE
              /\ execs' = Append(execs,
                     ExecEntry(key, NoConn, FALSE, out, 0, NoStreams, FALSE, NoResult))
              /\ UNCHANGED <<ssh_connections, conns, last_put>>
         ELSE /\ hit = NoConn => HasFree
              /\ ssh_connections' = IF hit # NoConn THEN ssh_connections
                                    ELSE StoreConnection(ssh_connections, key, c)
              /\ last_put' = IF hit # NoConn THEN last_put
                             ELSE [last_put EXCEPT ![key] = c]
              /\ CASE run = "broken" ->
                        \* exec_command raises: the transport broke before the
                        \* command was started.
                        /\ code = 0 /\ streams = CHOOSE x \in CommandStreams : TRUE
                        /\ conns' = [cs EXCEPT ![c].state = "dead"]
                        /\ execs' = Append(execs,
                              ExecEntry(key, c, hit = NoConn, "exec_error", 0,
                                        NoStreams, FALSE, NoResult))
                   [] run = "completes" ->
                        /\ conns' = cs
                        /\ execs' = Append(execs,
                              ExecEntry(key, c, hit = NoConn, "ok", code, streams, TRUE,
                                        CommandResult(code, streams.stdout, streams.stderr)))
                   [] run = "waits" ->
                        /\ conns' = cs
                        /\ execs' = Append(execs,
                              ExecEntry(key, c, hit = NoConn, "running", code, streams,
                                        FALSE, NoResult))
    /\ UNCHANGED <<sess, env, thr, keyrun, info>>

\* The remote command of a waiting execution completes.
CommandCompletes(i) ==
    /\ i \in 1 .. Len(execs)
    /\ execs[i].status = "running"
    /\ ~execs[i].done
    /\ is_active(conns, execs[i].conn)
    /\ execs' = [execs EXCEPT ![i].done = TRUE]
    /\ UNCHANGED <<ssh_connections, conns, sess, env, thr, last_put, keyrun, info>>

\* recv_exit_status() returns: the exit status has arrived, or the channel
\* was closed under the call and the status reads -1; then both streams are
\* read to their end, which is whatever had arrived.
ExecReturns(i) ==
    /\ i \in 1 .. Len(execs)
    /\ execs[i].status = "running"
    /\ LET e == execs[i] IN
       IF e.done
       THEN execs' = [execs EXCEPT ![i] =
                ExecEntry(e.key, e.conn, e.opened, "ok", e.code, e.streams, TRUE,
                          CommandResult(e.code, e.streams.stdout, e.streams.stderr))]
       ELSE /\ ~is_active(conns, e.conn)
            /\ \E out \in Prefixes(e.streams.stdout), err \in Prefixes(e.streams.stderr) :
                 execs' = [execs EXCEPT ![i] =
                    ExecEntry(e.key, e.conn, e.opened, "ok", e.code, e.streams, FALSE,
                              CommandResult(NoExitStatus, out, err))]
    /\ UNCHANGED <<ssh_connections, conns, sess, env, thr, last_put, keyrun, info>>

\* --------------------------------------- the registry under worker threads
\* _collect_realtime_metrics runs _run_blocking in a worker thread
\* (asyncio.to_thread) while the event loop thread runs the endpoints, so the
\* statements of get_ssh_connection, create_ssh_connection and
\* close_ssh_connection interleave.  Thread 0 is the event loop.
LoopThread == 0
Threads == 0 .. NumWorkers
SharedKeys == {KeyOf(1, 1), KeyOf(1, 3)}

IdleThread == [pc |-> "idle", key |-> <<0, 0>>, ssh |-> NoConn, opened |-> FALSE]

\* key = f"..."; if key in ssh_connections:
GetTest(t, key) ==
    /\ thr[t].pc = "idle"
    /\ thr' = [thr EXCEPT ![t] =
                  [IdleThread EXCEPT !.key = key,
                      !.pc = IF ssh_connections[key] # NoConn THEN "get_load" ELSE "connect"]]
    /\ UNCHANGED <<ssh_connections, conns, sess, env, execs, last_put, keyrun, info>>

\* conn_info = ssh_connections[key]   (KeyError when the key is gone)
GetLoad(t) ==
    /\ thr[t].pc = "get_load"
    /\ thr' = [thr EXCEPT ![t] =
                  IF ssh_connections[thr[t].key] = NoConn
                  THEN [@ EXCEPT !.pc = "key_error"]
                  ELSE [@ EXCEPT !.pc = "get_check", !.ssh = ssh_connections[thr[t].key]]]
    /\ UNCHANGED <<ssh_connections, conns, sess, env, execs, last_put, keyrun, info>>

\* transport = conn_info["client"].get_transport(); active -> return client
GetCheck(t) ==
    /\ thr[t].pc = "get_check"
    /\ thr' = [thr EXCEPT ![t] =
                  IF is_active(conns, thr[t].ssh)
                  THEN [@ EXCEPT !.pc = "use"]
                  ELSE [@ EXCEPT !.pc = "connect", !.ssh = NoConn]]
    /\ UNCHANGED <<ssh_connections, conns, sess, env, execs, last_put, keyrun, info>>

\* ssh.connect(**connect_kwargs) in create_ssh_connection
ThreadConnect(t) ==
    /\ thr[t].pc = "connect"
    /\ \E out \in ConnectOutcomes(thr[t].key[1], thr[t].key[2]) :
         IF out = "ok"
         THEN /\ HasFree
              /\ conns' = [conns EXCEPT ![NewConnId] = OpenedConn(thr[t].key, TRUE)]
              /\ thr' = [thr EXCEPT ![t] = [@ EXCEPT !.pc = "store", !.ssh = NewConnId,
                                                     !.opened = TRUE]]
         ELSE /\ thr' = [thr EXCEPT ![t] = IdleThread]
              /\ UNCHANGED conns
    /\ UNCHANGED <<ssh_connections, sess, env, execs, last_put, keyrun, info>>

\* ssh_connections[key] = {"client": ssh, ...,
\*                         "created_at": asyncio.get_event_loop().time()}
\* A worker thread has no event loop: get_event_loop() raises RuntimeError
\* while the entry is being built, nothing is stored, and the handler of
\* create_ssh_connection turns the error into an HTTPException; the client
\* that was connected is neither stored nor closed.
ThreadStore(t) ==
    /\ thr[t].pc = "store"
    /\ IF t = LoopThread
       THEN /\ ssh_connections' = StoreConnection(ssh_connections, thr[t].key, thr[t].ssh)
            /\ last_put' = [last_put EXCEPT ![thr[t].key] = thr[t].ssh]
            /\ thr' = [thr EXCEPT ![t].pc = "use"]
       ELSE /\ thr' = [thr EXCEPT ![t].pc = "store_error"]
            /\ UNCHANGED <<ssh_connections, last_put>>
    /\ UNCHANGED <<conns, sess, env, execs, keyrun, info>>

\* The caller ran its commands on ssh and returned, or returned the failure
\* of create_ssh_connection.
ThreadReturn(t) ==
    /\ thr[t].pc \in {"use", "store_error"}
    /\ thr' = [thr EXCEPT ![t] = IdleThread]
    /\ UNCHANGED <<ssh_connections, conns, sess, env, execs, last_put, keyrun, info>>

\* close_ssh_connection, statement by statement, on the event loop thread.
\* if key in ssh_connections:
EvictTest(t, key) ==
    /\ t = LoopThread
    /\ thr[t].pc = "idle"
    /\ ssh_connections[key] # NoConn
    /\ thr' = [thr EXCEPT ![t] = [IdleThread EXCEPT !.key = key, !.pc = "evict_close"]]
    /\ UNCHANGED <<ssh_connections, conns, sess, env, execs, last_put, keyrun, info>>

\* try: ssh_connections[key]["client"].close() except: pass
EvictClose(t) ==
    /\ thr[t].pc = "evict_close"
    /\ LET c == ssh_connections[thr[t].key] IN
         conns' = IF c # NoConn /\ conns[c].state # "closed"
                  THEN [conns EXCEPT ![c] = [@ EXCEPT !.state = "closed", !.by = "registry"]]
                  ELSE conns
    /\ thr' = [thr EXCEPT ![t].pc = "evict_del"]
    /\ UNCHANGED <<ssh_connections, sess, env, execs, last_put, keyrun, info>>

\* del ssh_connections[key]   (KeyError when the key is gone)
EvictDel(t) ==
    /\ thr[t].pc = "evict_del"
    /\ IF ssh_connections[thr[t].key] = NoConn
       THEN /\ thr' = [thr EXCEPT ![t].pc = "key_error"]
            /\ UNCHANGED <<ssh_connections, last_put>>
       ELSE /\ ssh_connections' = [ssh_connections EXCEPT ![thr[t].key] = NoConn]
            /\ last_put' = [last_put EXCEPT ![thr[t].key] = NoConn]
            /\ thr' = [thr EXCEPT ![t] = IdleThread]
    /\ UNCHANGED <<conns, sess, env, execs, keyrun, info>>

\* ------------------------------------------------ load_ssh_private_key
\* An order of attempts that starts with the DSA class.
FormatsDSAFirst == <<"DSA", "RSA", "ECDSA", "Ed25519">>

\* The four key classes in the order the code tries them.
Formats == <<"RSA", "ECDSA", "Ed25519", "DSA">>

\* What a credential can hold.  Inline content (password_encrypted): none,
\* a blob that does not decrypt, a key in one of the four encodings, or text
\* that is no key.  Path (ssh_key_path): none, a path with no file behind
\* it, or a file holding a key of one encoding or no key.
Encodings == {Formats[i] : i \in 1 .. Len(Formats)}
InlineContents == {"none", "undecryptable", "garbage"} \cup Encodings
KeyPaths == {"none", "missing", "garbage"} \cup Encodings

\* paramiko.<F>Key.from_private_key / from_private_key_file: a key class
\* loads material of its own encoding and raises on anything else.
Parses(format, material) == material = format

NoKeyRun ==
    [via |-> "none", inline |-> "none", path |-> "none", pc |-> "idle", next |-> 0,
     tried |-> <<>>, status |-> "none", format |-> "none", source |-> "none"]

KeyRuns ==
    {[NoKeyRun EXCEPT !.via = v, !.inline = c, !.path = p, !.pc = "start"] :
        v \in {"load_ssh_private_key", "get_ssh_connection_async"},
        c \in InlineContents, p \in KeyPaths}

KeyReturn(k, format, source) ==
    [k EXCEPT !.pc = "done", !.status = "ok", !.format = format, !.source = source]

\* raise HTTPException(400) / ValueError
KeyRaise(k) == [k EXCEPT !.pc = "done", !.status = "error"]

\* if credential.password_encrypted: decrypt the content; a failure to
\* decrypt goes on to the path if there is one.
LoadInline ==
    /\ keyrun.via = "load_ssh_private_key"
    /\ keyrun.pc = "start"
    /\ keyrun' =
         CASE keyrun.inline = "none" -> [keyrun EXCEPT !.pc = "path_stage"]
           [] keyrun.inline = "undecryptable" ->
                IF keyrun.path # "none" THEN [keyrun EXCEPT !.pc = "path_stage"]
                ELSE KeyRaise(keyrun)
           [] OTHER -> [keyrun EXCEPT !.pc = "inline", !.next = 1]
    /\ UNCHANGED <<ssh_connections, conns, sess, env, execs, thr, last_put, info>>

\* One of the four try blocks on the inline content.
TryInline ==
    LET f == Formats[keyrun.next]
        k == [keyrun EXCEPT !.tried = Append(@, <<"inline", f>>)]
    IN
    /\ keyrun.pc = "inline"
    /\ keyrun' =
         IF Parses(f, keyrun.inline) THEN KeyReturn(k, f, "inline")
         ELSE IF keyrun.next < Len(Formats) THEN [k EXCEPT !.next = @ + 1]
         ELSE IF keyrun.path = "none" THEN KeyRaise(k)
         ELSE [k EXCEPT !.pc = "path_stage"]
    /\ UNCHANGED <<ssh_connections, conns, sess, env, execs, thr, last_put, info>>

\* if pkey is None and credential.ssh_key_path: ... os.path.exists(key_path);
\* with no path the function ends in the final raise.
LoadPath ==
    /\ keyrun.pc = "path_stage"
    /\ keyrun' =
         IF keyrun.path \in {"none", "missing"} THEN KeyRaise(keyrun)
         ELSE [keyrun EXCEPT !.pc = "path", !.next = 1]
    /\ UNCHANGED <<ssh_connections, conns, sess, env, execs, thr, last_put, info>>

\* One of the four try blocks on the key file.
TryPath ==
    LET f == Formats[keyrun.next]
        k == [keyrun EXCEPT !.tried = Append(@, <<"path", f>>)]
    IN
    /\ keyrun.pc = "path"
    /\ keyrun' =
         IF Parses(f, keyrun.path) THEN KeyReturn(k, f, "path")
         ELSE IF keyrun.next < Len(Formats) THEN [k EXCEPT !.next = @ + 1]
         ELSE KeyRaise(k)
    /\ UNCHANGED <<ssh_connections, conns, sess, env, execs, thr, last_put, info>>

\* get_ssh_connection_async, ssh_key branch: the key file of the path if a
\* path is set, else the inline content written to a temporary file; the
\* file is handed to asyncssh.connect as client_keys, which reads it when
\* it connects.
AsyncClientKeys ==
    /\ keyrun.via = "get_ssh_connection_async"
    /\ keyrun.pc = "start"
    /\ keyrun' =
         CASE keyrun.path = "missing" -> KeyRaise(keyrun)
           [] keyrun.path # "none" ->
                IF keyrun.path \in Encodings
                THEN KeyReturn(keyrun, keyrun.path, "path") ELSE KeyRaise(keyrun)
           [] keyrun.inline \in {"none", "undecryptable"} -> KeyRaise(keyrun)
           [] OTHER ->
                IF keyrun.inline \in Encodings
                THEN KeyReturn(keyrun, keyrun.inline, "inline") ELSE KeyRaise(keyrun)
    /\ UNCHANGED <<ssh_connections, conns, sess, env, execs, thr, last_put, info>>

\* ------------------------------------------ POST /{server_id}/collect-info
\* collect_server_info: get or create the connection, then issue the
\* commands one block after another, each block inside its own try/except.
\* The blocks in the order of the code, named by the key of collected_info
\* they fill ("cpu_usage" is collected_info["cpu"]["usage"], "cpu_details"
\* the lscpu block that updates collected_info["cpu"]).
Commands ==
    <<"cpu", "cpu_usage", "memory", "disk", "network", "os", "uptime",
      "load_average", "hostname", "timezone", "system_time", "cpu_details",
      "logged_in_users", "language">>

Categories == {Commands[i] : i \in 1 .. Len(Commands)}

\* The blocks whose failure branch and except clause call errors.append();
\* the other blocks skip a nonzero exit and only log an exception.
RecordsErrors == {"cpu", "memory", "disk", "network", "os"}

\* How the command of a block ends on the remote host: exit status 0, a
\* nonzero exit status (for a block with a fallback command: of the fallback
\* too), or an exception out of exec_command or of the parsing.
CommandOutcomes == {"ok", "nonzero", "exception"}

\* One collection: the pair, the connection, the index of the next block,
\* the blocks whose command was issued, those that failed, the keys of
\* collected_info holding facts, the errors list (one entry per category)
\* and how the request ended.
NoCollect ==
    [pc |-> "idle", key |-> <<0, 0>>, conn |-> NoConn, next |-> 0, issued |-> {},
     failed |-> {}, collected |-> {}, errors |-> <<>>, status |-> "none"]

\* The lookups and the connection: a failure of create_ssh_connection is
\* answered with HTTP 500 before any command is issued.
CollectStart(key) ==
    LET hit == get_ssh_connection(ssh_connections, conns, key) IN
    /\ info.pc = "idle"
    /\ \E out \in (IF hit # NoConn THEN {"ok"} ELSE ConnectOutcomes(key[1], key[2])) :
         IF out # "ok"
         THEN /\ info' = [info EXCEPT !.pc = "done", !.key = key, !.status = "http_500"]
              /\ UNCHANGED <<ssh_connections, conns, last_put>>
         ELSE LET c == IF hit # NoConn THEN hit ELSE NewConnId IN
              /\ hit = NoConn => HasFree
              /\ conns' = IF hit # NoConn THEN conns
                          ELSE [conns EXCEPT ![c] = OpenedConn(key, TRUE)]
              /\ ssh_connections' = IF hit # NoConn THEN ssh_connections
                                    ELSE StoreConnection(ssh_connections, key, c)
              /\ last_put' = IF hit # NoConn THEN last_put
                             ELSE [last_put EXCEPT ![key] = c]
              /\ info' = [info EXCEPT !.pc = "run", !.key = key, !.conn = c, !.next = 1]
    /\ UNCHANGED <<sess, env, execs, thr, keyrun>>

\* One block.  The CPU usage commands stand in the success branch of the
\* cpuinfo command and are reached only when that command exited with 0
\* and its output was parsed.
CollectStep ==
    /\ info.pc = "run"
    /\ info.next <= Len(Commands)
    /\ LET cat == Commands[info.next] IN
       IF cat = "cpu_usage" /\ "cpu" \notin info.collected
       THEN info' = [info EXCEPT !.next = @ + 1]
       ELSE \E out \in CommandOutcomes :
              /\ out # "ok" => Cardinality(info.failed) < MaxFailures
              /\ info' = [info EXCEPT
                    !.next = @ + 1,
                    !.issued = @ \cup {cat},
                    !.failed = IF out = "ok" THEN @ ELSE @ \cup {cat},
                    !.collected = IF out = "ok" THEN @ \cup {cat} ELSE @,
                    !.errors = IF out # "ok" /\ cat \in RecordsErrors
                               THEN Append(@, cat) ELSE @]
    /\ UNCHANGED <<ssh_connections, conns, sess, env, execs, thr, last_put, keyrun>>

\* After the last block: errors go into collected_info["_errors"], the
\* database update is tried (its failure is logged) and the result returned.
CollectReturn ==
    /\ info.pc = "run"
    /\ info.next > Len(Commands)
    /\ info' = [info EXCEPT !.pc = "done", !.status = "result"]
    /\ UNCHANGED <<ssh_connections, conns, sess, env, execs, thr, last_put, keyrun>>

\* ---------------------------------------------------------- specification
Init ==
    /\ ssh_connections = [k \in Keys |-> NoConn]
    /\ conns = [c \in ConnIds |-> FreeConn]
    /\ sess = [s \in Sessions |-> InitSess]
    /\ env = [frames |-> 0, chunks |-> 0]
    /\ execs = <<>>
    /\ thr = [t \in Threads |-> IdleThread]
    /\ last_put = [k \in Keys |-> NoConn]
    /\ keyrun = NoKeyRun
    /\ info = NoCollect

\* The handler without its reader task (which only acts on shell output or
\* shell exit).
ParamikoMain(s) ==
    \/ PVerifyUser(s)
    \/ PLookup(s)
    \/ PConnect(s)
    \/ PStartShell(s)
    \/ PSendConnected(s)
    \/ PHandleMessage(s)
    \/ PCleanup(s)

AsyncsshStep(s) ==
    \/ \E q \in Requests : AAccept(s, q)
    \/ AVerifyUser(s)
    \/ ALookup(s)
    \/ AConnect(s)
    \/ ASendConnected(s)
    \/ AStartShell(s)
    \/ AInitPrompt(s)
    \/ AReadOutput(s)
    \/ AHandleInput(s)
    \/ AFinish(s)

ParamikoStep(s) ==
    \/ \E q \in Requests : PAccept(s, q)
    \/ ParamikoMain(s)
    \/ PReceiveFromSsh(s)
    \/ PChannelSendReturns(s)

Next ==
    \/ ParamikoStep(1)
    \/ AsyncsshStep(1)
    \/ Tick(1)
    \/ ClientSend(1)
    \/ ClientDisconnect(1)
    \/ ShellOutput(1)
    \/ ShellExit(1)
    \/ \E c \in ConnIds : TransportDies(c)
    \/ \E k \in Keys : DisconnectSsh(k)

Spec == Init /\ [][Next]_vars

\* The event loop runs every handler and task that is ready to run, and a
\* synchronous call it is inside of returns in the end.
SpecLive == Spec /\ WF_vars(ParamikoStep(1) \/ AsyncsshStep(1))


\* Several paramiko terminal sessions side by side on the event loop, from
\* accept to cleanup, with the disconnect endpoint and dying transports.
ConnectingRequests == {q \in Requests : q[1] \in ServerRows /\ q[2] \in CredRows /\ q[3] = "valid"}

MultiNext ==
    \/ \E s \in Sessions, q \in ConnectingRequests : PAccept(s, q)
    \/ \E s \in Sessions : ParamikoMain(s)
    \/ \E s \in Sessions : sess[s].pc \in {"connected", "active"} /\ ClientDisconnect(s)
    \/ \E c \in ConnIds : TransportDies(c)
    \/ \E k \in Keys : DisconnectSsh(k)

SpecMulti == Init /\ [][MultiNext]_vars


\* One-shot executions one after another on the event loop.
ExecNext ==
    \/ \E k \in Keys : ExecuteCommand(k)
    \/ \E i \in 1 .. MaxExecs : CommandCompletes(i)
    \/ \E i \in 1 .. MaxExecs : ExecReturns(i)
    \/ \E c \in ConnIds : TransportDies(c)
    \/ \E k \in Keys : DisconnectSsh(k)

SpecExec == Init /\ [][ExecNext]_vars

\* A call that can return does return.
SpecExecLive == SpecExec /\ WF_vars(\E i \in 1 .. MaxExecs : ExecReturns(i))

\* The registry operations of the event loop thread and the worker threads,
\* statement by statement.
RegNext ==
    \/ \E t \in Threads, k \in SharedKeys : GetTest(t, k)
    \/ \E t \in Threads : GetLoad(t)
    \/ \E t \in Threads : GetCheck(t)
    \/ \E t \in Threads : ThreadConnect(t)
    \/ \E t \in Threads : ThreadStore(t)
    \/ \E t \in Threads : ThreadReturn(t)
    \/ \E k \in SharedKeys : EvictTest(LoopThread, k)
    \/ EvictClose(LoopThread)
    \/ EvictDel(LoopThread)

SpecReg == Init /\ [][RegNext]_vars

\* The resolution of one ssh_key credential's private key, on either code
\* path that builds authentication from it.
InitKey ==
    /\ ssh_connections = [k \in Keys |-> NoConn]
    /\ conns = [c \in ConnIds |-> FreeConn]
    /\ sess = [s \in Sessions |-> InitSess]
    /\ env = [frames |-> 0, chunks |-> 0]
    /\ execs = <<>>
    /\ thr = [t \in Threads |-> IdleThread]
    /\ last_put = [k \in Keys |-> NoConn]
    /\ keyrun \in KeyRuns
    /\ info = NoCollect

KeyNext ==
    \/ LoadInline
    \/ TryInline
    \/ LoadPath
    \/ TryPath
    \/ AsyncClientKeys

SpecKey == InitKey /\ [][KeyNext]_vars

\* One fact collection.
CollectNext ==
    \/ \E k \in Keys : CollectStart(k)
    \/ CollectStep
    \/ CollectReturn

SpecCollect == Init /\ [][CollectNext]_vars

\* ------------------------------------------------------------------ claims
Ended(r) == r.pc \in {"closed", "failed"}

FramesWith(r, type, msgs) ==
    {i \in 1 .. Len(r.sent) : r.sent[i].type = type /\ r.sent[i].msg \in msgs}

SessKey(r) == KeyOf(r.server_id, r.credential_id)

\* The connected frame reached the client: the session got to Active.
WasActive(r) ==
    /\ r.channel # "none"
    /\ \E i \in 1 .. Len(r.sent) : r.sent[i].type = "connected" /\ r.sent[i].ok

C2_Original ==
    \A s \in Sessions :
        (Ended(sess[s]) /\ sess[s].channel # "none") => sess[s].closes = 1

\* C3 as stated: once the idle window has passed the client is sent exactly
\* one idle-timeout notice, and the session gets to Closed by the server's own
\* steps: wherever it is not closed yet, a step of the handler is possible
\* without a frame from the client or the client going away.
C3_Original ==
    \A s \in Sessions :
        LET n == Cardinality(FramesWith(sess[s], "error", {"idle_timeout"})) IN
        n > 0 => /\ n = 1
                 /\ sess[s].pc = "closed" \/ ENABLED AsyncsshStep(s)

\* C4: a session opened with a credential whose secret is wrong sends no
\* connected and no output frame; when it has failed it has sent exactly one
\* frame, an error frame explaining the connect failure, the client-facing
\* connection is no longer open, and the Registry has no entry for the pair.
ConnectFailures == {"auth_failed", "ssh_error", "conn_error"}

C4_WrongSecretOneErrorFrame ==
    \A s \in Sessions :
        LET r == sess[s] IN
        (r.credential_id \in WrongSecret /\ r.server_id \in ServerRows \ JumpServers
            /\ r.token = "valid") =>
          /\ ssh_connections[SessKey(r)] = NoConn
          /\ \A i \in 1 .. Len(r.sent) : r.sent[i].type = "error"
          /\ r.pc = "failed" =>
               /\ Len(r.sent) = 1
               /\ r.sent[1].msg \in ConnectFailures
               /\ r.ws # "open"
               /\ r.sent[1].ok <=> r.ws = "server_closed"

\* A paramiko session with a wrong secret failed on authentication; the one
\* error frame reached the client and the server closed the websocket.
C4_Witness ==
    \E s \in Sessions :
        /\ sess[s].endpoint = "paramiko"
        /\ sess[s].credential_id \in WrongSecret
        /\ sess[s].pc = "failed"
        /\ sess[s].sent = <<[type |-> "error", msg |-> "auth_failed", ok |-> TRUE]>>
        /\ sess[s].ws = "server_closed"
        /\ ssh_connections[SessKey(sess[s])] = NoConn

\* C5: of two executions one after the other on the same pair, with the
\* first one's connection alive throughout, the second runs on the first
\* one's connection and opens none; the very first execution that gets a
\* connection opened it.
C5_SecondExecutionReuses ==
    /\ (Len(execs) > 0 /\ execs[1].conn # NoConn) => execs[1].opened
    /\ \A i \in 1 .. Len(execs) - 1 :
         (/\ execs[i].key = execs[i + 1].key
          /\ execs[i].conn # NoConn
          /\ is_active(conns, execs[i].conn)) =>
            /\ execs[i + 1].conn = execs[i].conn
            /\ ~execs[i + 1].opened
            /\ execs[i + 1].status \in {"ok", "running"}

\* The first execution opened a connection, the second ran on it.
C5_Witness ==
    /\ Len(execs) >= 2
    /\ execs[1].opened /\ execs[1].status = "ok"
    /\ execs[2].key = execs[1].key
    /\ execs[2].conn = execs[1].conn
    /\ ~execs[2].opened /\ execs[2].status = "ok"
    /\ Cardinality({c \in ConnIds : conns[c].state # "free"}) = 1

\* C6: get returns a connection only if it is the pair's entry and its
\* transport is active; an entry whose transport is active is returned; an
\* entry whose transport has died or was closed reads as absent.
C6_GetReturnsOnlyLive ==
    \A k \in Keys :
        LET g == get_ssh_connection(ssh_connections, conns, k)
            e == ssh_connections[k]
        IN /\ g # NoConn => (g = e /\ conns[g].state = "active")
           /\ (e # NoConn /\ conns[e].state = "active") => g = e
           /\ (e # NoConn /\ conns[e].state # "active") => g = NoConn

\* An execution ran on a connection, the transport died afterwards, the entry
\* is still in the map and get reports the pair absent.
C6_Witness ==
    \E k \in Keys :
        /\ ssh_connections[k] # NoConn
        /\ conns[ssh_connections[k]].state = "dead"
        /\ \E i \in 1 .. Len(execs) :
             execs[i].conn = ssh_connections[k] /\ execs[i].status = "ok"
        /\ get_ssh_connection(ssh_connections, conns, k) = NoConn

\* C7 as stated: when two concurrent requests for one pair have each missed
\* the Registry and each opened a connection, and no connection of the pair
\* was evicted, the Registry tracks one of the two connections for the pair,
\* and it is the one registered last.
Created(t) == thr[t].pc \in {"use", "store_error"} /\ thr[t].opened

C7_Original ==
    \A t, u \in Threads :
        (/\ t # u
         /\ Created(t) /\ Created(u)
         /\ thr[t].key = thr[u].key
         /\ \A c \in ConnIds : conns[c].key = thr[t].key => conns[c].by # "registry") =>
            /\ ssh_connections[thr[t].key] \in {thr[t].ssh, thr[u].ssh}
            /\ ssh_connections[thr[t].key] = last_put[thr[t].key]

\* C8 as stated: no get, put or evict fails on a key another operation
\* removed between its membership test and its access, and each key of the
\* map holds nothing or one connection opened for that key.
C8_Original ==
    /\ \A t \in Threads : thr[t].pc # "key_error"
    /\ \A k \in Keys :
         ssh_connections[k] # NoConn =>
            /\ conns[ssh_connections[k]].state # "free"
            /\ conns[ssh_connections[k]].key = k

\* C9: a step of a session changes no Registry entry of another pair and no
\* connection that exists; it replaces its own pair's entry only when there
\* is none or its transport is not active; and the step in which a session
\* fails changes neither the Registry nor any connection.
C9_FailureLeavesOthersAlone ==
    [][\A s \in Sessions :
          sess'[s] # sess[s] =>
            LET key == SessKey(sess'[s]) IN
            /\ \A k \in Keys : k # key => ssh_connections'[k] = ssh_connections[k]
            /\ \A c \in ConnIds : conns[c].state # "free" => conns'[c] = conns[c]
            /\ key \in Keys =>
                 (ssh_connections'[key] # ssh_connections[key] =>
                     get_ssh_connection(ssh_connections, conns, key) = NoConn)
            /\ sess'[s].pc = "failed" =>
                 (ssh_connections' = ssh_connections /\ conns' = conns)]_vars

\* One session failed at the shell start on the connection another session
\* is using; that session is Active, the connection alive and registered.
\* Another session failed on authentication.
C9_Witness ==
    \E s, u \in Sessions :
        /\ s # u
        /\ sess[s].pc = "failed"
        /\ FramesWith(sess[s], "error", {"shell"}) # {}
        /\ sess[s].ssh = sess[u].ssh
        /\ sess[u].pc = "active"
        /\ is_active(conns, sess[u].ssh)
        /\ ssh_connections[SessKey(sess[u])] = sess[u].ssh

\* C10 as stated: once the remote shell has exited during Active the session
\* gets to Closing by the server's own steps: wherever it is not closing or
\* closed yet, a step of the handler or of its reader is possible without a
\* frame from the client or the client going away.
C10_Original ==
    \A s \in Sessions :
        (sess[s].shell = "exited" /\ sess[s].pc = "active") =>
            ENABLED (ParamikoStep(s) \/ AsyncsshStep(s))

\* C11 as stated: the step in which the handler takes a close frame from the
\* client during Active stops the writer duty and starts the shutdown: the
\* session is Closing or Closed, or its writer duty has ended, right after it.
C11_Original ==
    [][\A s \in Sessions :
          (/\ sess[s].pc = "active"
           /\ sess[s].inbox # <<>>
           /\ Head(sess[s].inbox).type = "close"
           /\ sess'[s].inbox = Tail(sess[s].inbox)) =>
             \/ sess'[s].pc \in {"closing", "closed"}
             \/ sess'[s].writer = "done"]_vars

FailedSends(r) == {i \in 1 .. Len(r.sent) : ~r.sent[i].ok}

C14_Original ==
    \A s \in Sessions :
        LET r == sess[s] IN
        /\ (r.pc = "active" /\ r.reader = "run" /\ r.outq # <<>>) =>
               ENABLED (PReceiveFromSsh(s) \/ AReadOutput(s))
        /\ (r.pc = "active" /\ r.inbox # <<>> /\ r.writer # "done") =>
               ENABLED (PHandleMessage(s) \/ PChannelSendReturns(s) \/ AHandleInput(s))

\* The output chunks that reached the client, in the order they were sent.
Forwarded(r) ==
    LET out == SelectSeq(r.sent, LAMBDA f : f.type = "output" /\ f.ok /\ f.msg # "session_ended")
    IN [i \in 1 .. Len(out) |-> out[i].msg]

\* The chunks the remote shell has produced, in order.
Produced == [i \in 1 .. env.chunks |-> ToString(i)]

\* The server has told the client that the shell is gone.
ToldShellEnded(r) ==
    \/ FramesWith(r, "error", {"shell_exited"}) # {}
    \/ FramesWith(r, "output", {"session_ended"}) # {}

\* C15 (as the spec states it): output reaches the client in the order the
\* shell produced it and input reaches the shell in the order it was received,
\* with no chunk and no input frame dropped, duplicated or reordered while the
\* session is Active.  While the client is connected, what was forwarded
\* followed by what is still waiting is exactly what the shell produced; by the
\* time the server reports that the shell is gone nothing is left waiting; and
\* a step that takes an input frame while the channel is usable appends its
\* data to what was written to the shell, which changes in no other way.
C15_Original ==
    /\ [](\A s \in Sessions :
            LET r == sess[s] IN
            (r.pc = "active" /\ r.ws = "open") =>
                /\ (r.reader = "run" => Forwarded(r) \o r.outq = Produced)
                /\ (ToldShellEnded(r) => r.outq = <<>>))
    /\ [][\A s \in Sessions :
            LET r == sess[s] IN
            (r.pc = "active" /\ sess'[s].written # r.written) =>
                /\ r.inbox # <<>>
                /\ Head(r.inbox).type = "input"
                /\ sess'[s].inbox = Tail(r.inbox)
                /\ sess'[s].written = Append(r.written, Head(r.inbox).data)]_vars

\* The session is in Active with its shell and its client both there.
Streaming(r) ==
    /\ r.pc = "active"
    /\ ChannelUsable(r)
    /\ r.endpoint = "asyncssh" => r.is_connected

\* C16: a resize frame taken during Active sets the pseudo-terminal geometry
\* to the frame's columns and rows and touches nothing else: the output that
\* is waiting, the frames already sent, the reader and the handler stay as
\* they were and the session stays Active; and in a session whose geometry
\* was changed, what was forwarded followed by what is still waiting is
\* exactly what the shell produced, in order, as long as the reader runs and
\* the client is connected.
C16_ResizeKeepsOutput ==
    /\ [](\A s \in Sessions :
            LET r == sess[s] IN
            (r.pc = "active" /\ r.size # InitSess.size /\ r.ws = "open" /\ r.reader = "run") =>
                Forwarded(r) \o r.outq = Produced)
    /\ [][\A s \in Sessions :
            LET r == sess[s] IN
            (/\ Streaming(r)
             /\ r.inbox # <<>>
             /\ Head(r.inbox).type = "resize"
             /\ sess'[s].inbox = Tail(r.inbox)) =>
                /\ sess'[s].size = <<Head(r.inbox).cols, Head(r.inbox).rows>>
                /\ sess'[s].outq = r.outq
                /\ sess'[s].sent = r.sent
                /\ sess'[s].reader = r.reader
                /\ sess'[s].writer = r.writer
                /\ sess'[s].pc = "active"]_vars

\* A session whose geometry was changed by the first frame of the client is
\* still Active and has forwarded both chunks its shell produced.
C16_Witness ==
    \E s \in Sessions :
        LET r == sess[s] IN
        /\ Streaming(r)
        /\ r.ws = "open"
        /\ r.size = <<81, 25>>
        /\ env.chunks = 2
        /\ Forwarded(r) = Produced

\* Nothing behind the token check has happened for this session: no lookup
\* has answered, no connection was looked up, opened or stored (by it, or by
\* anyone when it is the only session), no shell channel exists.
NothingBehindToken(s) ==
    LET r == sess[s] IN
    /\ r.ssh = NoConn
    /\ ~r.opened
    /\ r.channel = "none"
    /\ r.shell = "none"
    /\ r.tmp_key = "none"
    /\ \A i \in 1 .. Len(r.sent) : r.sent[i].type = "error" /\ r.sent[i].msg \in {"params", "token"}
    /\ (\A t \in Sessions \ {s} : sess[t].pc = "new") =>
          /\ \A c \in ConnIds : conns[c].state = "free"
          /\ \A k \in Keys : ssh_connections[k] = NoConn

\* A request without a token that the framework refuses before the handler.
RefusedByFramework(r) == r.endpoint = "asyncssh" /\ r.token = ""

\* C17 (as the code has it): until the token has been verified a session has
\* done no lookup, opened no connection and started no shell; a session whose
\* token is missing or does not verify never does any of that and ends with
\* the client-facing connection closed.  It has then sent exactly one error
\* frame, except on the asyncssh endpoint when the token is missing: there
\* the request is refused before it is accepted and no frame is sent.
C17_TokenGate ==
    \A s \in Sessions :
        LET r == sess[s] IN
        /\ r.pc \in {"new", "auth"} => NothingBehindToken(s)
        /\ (r.pc # "new" /\ r.token # "valid") =>
              /\ r.pc \in {"auth", "failed"}
              /\ NothingBehindToken(s)
              /\ r.pc = "failed" =>
                    /\ r.ws # "open"
                    /\ IF RefusedByFramework(r)
                       THEN r.sent = <<>>
                       ELSE Len(r.sent) = 1

\* A session with a token that does not verify has ended with one error
\* frame delivered and the connection to the client closed by the server.
C17_Witness ==
    \E s \in Sessions :
        LET r == sess[s] IN
        /\ r.token = "invalid"
        /\ r.pc = "failed"
        /\ r.ws = "server_closed"
        /\ r.sent = <<[type |-> "error", msg |-> "token", ok |-> TRUE]>>
        /\ NothingBehindToken(s)

\* C17 (as the spec states it): the same, with an error frame sent in every
\* case of a missing or failing token.
C17_Original ==
    \A s \in Sessions :
        LET r == sess[s] IN
        /\ r.pc \in {"new", "auth"} => NothingBehindToken(s)
        /\ (r.pc # "new" /\ r.token # "valid") =>
              /\ r.pc \in {"auth", "failed"}
              /\ NothingBehindToken(s)
              /\ r.pc = "failed" =>
                    /\ r.ws # "open"
                    /\ Len(r.sent) = 1
                    /\ r.sent[1].type = "error"

\* C18 (as the spec states it): for a host that designates a jump host,
\* opening a connection fails with the not-implemented condition: a session
\* for such a host that has got past its connect step has failed with that
\* error and holds no connection and no shell channel, no connection to such
\* a host was ever opened, and the Registry has no entry for it.
C18_Original ==
    /\ \A s \in Sessions :
         LET r == sess[s] IN
         (r.server_id \in JumpServers /\ r.pc \notin {"new", "auth", "lookup", "connect"}) =>
             /\ r.pc = "failed"
             /\ FramesWith(r, "error", {"not_implemented"}) # {}
             /\ r.ssh = NoConn
             /\ r.channel = "none"
    /\ \A c \in ConnIds : conns[c].state # "free" => conns[c].key[1] \notin JumpServers
    /\ \A k \in Keys : k[1] \in JumpServers => ssh_connections[k] = NoConn

\* C19: a command that ran to completion gets a normal response, whatever
\* its exit code: the response carries the command's exit code, its success
\* flag is false for a nonzero code, and output and error are the decoded
\* stdout and stderr of the command, each from its own stream; and in every
\* response the success flag is true exactly when the exit code is 0.
C19_NonzeroExitIsAResult ==
    \A i \in 1 .. Len(execs) :
        LET e == execs[i] IN
        /\ (e.done /\ e.status # "running") =>
              /\ e.status = "ok"
              /\ e.exit_status = e.code
              /\ e.code # 0 => ~e.success
              /\ e.output = decode(e.streams.stdout)
              /\ e.error = decode(e.streams.stderr)
        /\ e.status = "ok" => (e.success <=> e.exit_status = 0)

\* A command that wrote to both streams and exited with code 1 got a
\* response with success false, exit code 1, and the two streams apart.
C19_Witness ==
    \E i \in 1 .. Len(execs) :
        LET e == execs[i] IN
        /\ e.status = "ok" /\ e.done
        /\ e.code = 1 /\ e.exit_status = 1 /\ ~e.success
        /\ e.streams.stderr = <<"xff", "e">>
        /\ e.output = <<"o">> /\ e.error = <<"e">>

\* C20 (as the spec states it): an execution never waits indefinitely: a
\* call that is waiting for the exit status returns in the end, whatever the
\* command does; and a call whose channel broke before the command
\* completed ends in an error, not in a response.
C20_Original ==
    /\ \A i \in 1 .. MaxExecs :
         (i <= Len(execs) /\ execs[i].status = "running") ~>
             (i <= Len(execs) /\ execs[i].status # "running")
    /\ [](\A i \in 1 .. Len(execs) :
            (execs[i].status # "running" /\ execs[i].streams # NoStreams /\ ~execs[i].done) =>
                execs[i].status = "exec_error")

\* The first n attempts on one source, in the order RSA, ECDSA, Ed25519, DSA.
Attempts(source, n) ==
    [i \in 1 .. n |-> <<source, <<"RSA", "ECDSA", "Ed25519", "DSA">>[i]>>]

\* C21: load_ssh_private_key tries the key material as RSA, then ECDSA, then
\* Ed25519, then DSA, on the inline content and then, if that gave no key, on
\* the file of the path, and returns at the first success: what was tried is
\* at every point a prefix of that order on each source; a returned key has
\* the encoding of the material it was read from and was the last thing
\* tried; and a run on validly formatted inline content of encoding E ends
\* with a key of encoding E read from the inline content.
C21_FirstParsingFormatReturned ==
    keyrun.via = "load_ssh_private_key" =>
        /\ \E a, b \in 0 .. 4 :
             /\ keyrun.tried = Attempts("inline", a) \o Attempts("path", b)
             /\ b > 0 => a \in {0, 4}
        /\ keyrun.status = "ok" =>
             /\ keyrun.tried # <<>>
             /\ keyrun.tried[Len(keyrun.tried)] = <<keyrun.source, keyrun.format>>
             /\ keyrun.format = (IF keyrun.source = "inline" THEN keyrun.inline ELSE keyrun.path)
             /\ \A i \in 1 .. Len(keyrun.tried) - 1 :
                  keyrun.tried[i][2] # keyrun.format \/ keyrun.tried[i][1] # keyrun.source
        /\ (keyrun.pc = "done" /\ keyrun.inline \in Encodings) =>
             /\ keyrun.status = "ok"
             /\ keyrun.source = "inline"
             /\ keyrun.format = keyrun.inline
        /\ (keyrun.pc = "done" /\ keyrun.inline \notin Encodings /\ keyrun.path \in Encodings) =>
             /\ keyrun.status = "ok"
             /\ keyrun.source = "path"
             /\ keyrun.format = keyrun.path

\* An Ed25519 key file was returned as an Ed25519 key after the inline
\* content had failed in all four formats and the file as RSA and ECDSA.
C21_Witness ==
    /\ keyrun.via = "load_ssh_private_key"
    /\ keyrun.inline = "garbage"
    /\ keyrun.path = "Ed25519"
    /\ keyrun.pc = "done"
    /\ keyrun.status = "ok"
    /\ keyrun.format = "Ed25519"
    /\ Len(keyrun.tried) = 7

\* C22 (as the spec states it): on every code path that resolves the key of
\* an ssh_key credential with both inline content and a path set, the inline
\* content is used whenever it is a key in one of the four formats, and the
\* path is used only when the inline content is not.
C22_Original ==
    (keyrun.pc = "done" /\ keyrun.inline # "none" /\ keyrun.path # "none") =>
        /\ keyrun.inline \in Encodings =>
              (keyrun.status = "ok" /\ keyrun.source = "inline")
        /\ keyrun.source = "path" => keyrun.inline \notin Encodings

\* C23: whatever commands of a collection fail, every command of the fixed
\* sequence is still issued and the collection returns a result; the call
\* fails only when the connection could not be established.
C23_Original ==
    info.pc = "done" =>
        /\ (info.status = "result") = (info.conn # NoConn)
        /\ info.status = "result" => info.issued = Categories

\* C24: every command of the sequence (CPU info, CPU usage, memory, disk,
\* network, OS release, uptime, load averages, hostname, timezone,
\* logged-in users, locale) that fails, by a nonzero exit or an exception,
\* has an error entry of its category in the result's error list.
C24_Original ==
    info.pc = "done" /\ info.status = "result" =>
        \A cat \in info.failed \ {"system_time", "cpu_details"} :
            \E i \in 1 .. Len(info.errors) : info.errors[i] = cat

\* C25: when the get of a request finds an entry of its pair whose transport
\* is no longer active, it reports the pair absent and the entry is removed:
\* after the request's step the map no longer holds that connection.
C25_Original ==
    [][\A k \in Keys :
         LET e == ssh_connections[k] IN
         (/\ Len(execs') = Len(execs) + 1
          /\ execs'[Len(execs')].key = k
          /\ e # NoConn
          /\ ~is_active(conns, e)) =>
            /\ get_ssh_connection(ssh_connections, conns, k) = NoConn
            /\ ssh_connections'[k] # e]_vars

\* C26 (as the code has it): create_ssh_connection registers the connection
\* itself.  Whenever it has returned a connection it opened to its caller,
\* that connection is already the Registry's entry of its pair; no caller
\* has a registration step of its own.
C26_OpenRegisters ==
    \A t \in Threads :
        (thr[t].pc = "use" /\ thr[t].opened) =>
            /\ ssh_connections[thr[t].key] = thr[t].ssh
            /\ last_put[thr[t].key] = thr[t].ssh

\* create_ssh_connection has just returned a connection it opened, and the
\* map holds it.
C26_Witness ==
    \E t \in Threads :
        /\ thr[t].pc = "use"
        /\ thr[t].opened
        /\ conns[thr[t].ssh].state = "active"
        /\ ssh_connections[thr[t].key] = thr[t].ssh

\* C26 as stated: the step in which a successful open returns leaves the
\* Registry unchanged.
C26_Original ==
    [][\A t \in Threads :
         (thr[t].pc = "store" /\ thr'[t].pc = "use") =>
            ssh_connections' = ssh_connections]_vars

\* The state of the session state machine a session record is in.  The
\* steps up to the connect are Connecting; from the connection to the start
\* of the two duties is ShellStarting; Closing is the cleanup after the
\* message loop was left or both duties have ended; a handler that has
\* returned is Closed when its duties had run and Failed when they never did.
SessionState(r) ==
    CASE r.pc \in {"new", "auth", "lookup", "connect"} -> "Connecting"
      [] r.pc \in {"shell", "connected", "prompt"} -> "ShellStarting"
      [] r.pc = "active" ->
            IF r.endpoint = "asyncssh" /\ r.reader = "done" /\ r.writer = "done"
            THEN "Closing" ELSE "Active"
      [] r.pc = "closing" -> "Closing"
      [] r.pc = "closed" -> IF r.reader = "none" THEN "Failed" ELSE "Closed"
      [] OTHER -> "Failed"

SessionMoves ==
    {<<"Connecting", "ShellStarting">>, <<"ShellStarting", "Active">>,
     <<"Active", "Closing">>, <<"Closing", "Closed">>,
     <<"Connecting", "Failed">>, <<"ShellStarting", "Failed">>}

\* The session has forwarded shell output or applied an input or resize frame.
DidSessionWork(r) ==
    \/ \E i \in 1 .. Len(r.sent) : r.sent[i].type = "output"
    \/ r.written # <<>>
    \/ r.size # <<80, 24>>

\* C27: a session moves only along Connecting -> ShellStarting -> Active ->
\* Closing -> Closed, enters Failed only from Connecting or ShellStarting,
\* never leaves Closed or Failed, and is Active, or has forwarded output or
\* applied a frame, only after both its connection step and its shell start
\* succeeded.
C27_SessionStateMachine ==
    /\ [][\A s \in Sessions :
            \/ SessionState(sess'[s]) = SessionState(sess[s])
            \/ <<SessionState(sess[s]), SessionState(sess'[s])>> \in SessionMoves]_vars
    /\ [](\A s \in Sessions :
            (SessionState(sess[s]) \in {"Active", "Closing", "Closed"} \/ DidSessionWork(sess[s])) =>
                /\ sess[s].ssh # NoConn
                /\ sess[s].channel # "none"
                /\ sess[s].shell # "none")

\* A session went all the way: it forwarded output and applied input while
\* Active and is now Closed.
C27_Witness ==
    \E s \in Sessions :
        /\ SessionState(sess[s]) = "Closed"
        /\ sess[s].written # <<>>
        /\ \E i \in 1 .. Len(sess[s].sent) : sess[s].sent[i].type = "output"

\* C28: every connection created by create_ssh_connection that has not been
\* closed is the Registry's current entry of its pair; a connection that was
\* replaced in the map has been closed.
C28_Original ==
    \A c \in ConnIds :
        (conns[c].tracked /\ conns[c].state \in {"active", "dead"}) =>
            ssh_connections[conns[c].key] = c

TakesFrame(s, type) ==
    /\ sess[s].inbox # <<>>
    /\ Head(sess[s].inbox).type = type
    /\ sess'[s].inbox = Tail(sess[s].inbox)

\* C30: on the asyncssh endpoint handling a resize frame leaves the time
\* since the last activity as it was; while the session is active that time
\* is set back only by a step that forwards shell output or handles an input
\* frame, and otherwise only grows as the clock goes on.
C30_ResizeIsNotActivity ==
    [][\A s \in Sessions :
         (sess[s].endpoint = "asyncssh" /\ sess[s].pc = "active") =>
            /\ TakesFrame(s, "resize") => sess'[s].elapsed = sess[s].elapsed
            /\ sess'[s].elapsed # sess[s].elapsed =>
                 \/ /\ sess'[s].elapsed > sess[s].elapsed
                    /\ sess'[s].inbox = sess[s].inbox
                    /\ sess'[s].outq = sess[s].outq
                 \/ /\ sess'[s].elapsed = 0
                    /\ \/ TakesFrame(s, "input")
                       \/ sess[s].outq # <<>> /\ sess'[s].outq = Tail(sess[s].outq)]_vars

\* A session whose client sent resize frames and no input frame, and whose
\* shell stayed up and wrote nothing, had its terminal resized and was told
\* of the idle timeout.
C30_Witness ==
    \E s \in Sessions :
        /\ sess[s].endpoint = "asyncssh"
        /\ sess[s].size # <<80, 24>>
        /\ sess[s].shell = "running"
        /\ is_active(conns, sess[s].ssh)
        /\ sess[s].written = <<"newline">>
        /\ env.frames = MaxFrames
        /\ env.chunks = 0
        /\ FramesWith(sess[s], "output", {"1", "2"}) = {}
        /\ FramesWith(sess[s], "error", {"idle_timeout"}) # {}

====
